---- MODULE Spec2Model ----
(***************************************************************************)
(* Model of the FirebasePush generic service                               *)
(* (src/src/models/firebase_push.py): the configuration installed by       *)
(* reconfigure, the do_command router and the _handle_send pipeline.       *)
(*                                                                         *)
(* Python values are tagged records, so that "falsy" ([], "", None, {}, 0) *)
(* and isinstance() are computed as the interpreter computes them.         *)
(* Strings are sequences of one-character strings, so that str.replace and *)
(* json.loads are computed, not assumed.                                   *)
(*                                                                         *)
(* _handle_send holds no await and reconfigure is synchronous, so on the   *)
(* event loop one call runs to its end before another call or a            *)
(* reconfigure starts: pc is the position of the one call in flight.  The  *)
(* outcomes of the calls on firebase_admin (return or raise) are chosen    *)
(* nondeterministically.                                                   *)
(***************************************************************************)
EXTENDS Integers, Sequences, FiniteSets, TLC

(***************************************************************************)
(* Bounds of the explored inputs.                                          *)
(***************************************************************************)
\* longest native token list a command carries
MaxCmdTokens == 2

(***************************************************************************)
(* Python values.                                                          *)
(***************************************************************************)
None == [t |-> "none"]
Str(s) == [t |-> "str", v |-> s]
Num(n) == [t |-> "int", v |-> n]
PyBool(b) == [t |-> "bool", v |-> b]
List(l) == [t |-> "list", v |-> l]
\* a dict, as the ordered sequence of its items [k |-> key, val |-> value]
Dict(items) == [t |-> "dict", v |-> items]

\* bool(x), the test behind `if x`, `not x`, `x or y`
Truthy(x) ==
    CASE x.t = "none" -> FALSE
      [] x.t = "str"  -> x.v # <<>>
      [] x.t = "int"  -> x.v # 0
      [] x.t = "bool" -> x.v
      [] x.t = "list" -> x.v # <<>>
      [] x.t = "dict" -> x.v # <<>>

\* mapping.get(key, default) on a mapping whose absent keys are held as None
Get(m, key, default) == IF m[key] = None THEN default ELSE m[key]

Digit(d) == <<"0", "1", "2", "3", "4", "5", "6", "7", "8", "9">>[d + 1]

RECURSIVE NatToStr(_)
NatToStr(n) == IF n < 10 THEN <<Digit(n)>> ELSE NatToStr(n \div 10) \o <<Digit(n % 10)>>

\* str(value) for the values a template variable carries
PyStr(x) ==
    CASE x.t = "str"  -> x.v
      [] x.t = "int"  -> NatToStr(x.v)
      [] x.t = "none" -> <<"N", "o", "n", "e">>

\* str.replace(old, new) for a non-empty old: every non-overlapping
\* occurrence, scanning left to right
RECURSIVE Replace(_, _, _)
Replace(s, old, new) ==
    IF Len(s) < Len(old) THEN s
    ELSE IF SubSeq(s, 1, Len(old)) = old
         THEN new \o Replace(SubSeq(s, Len(old) + 1, Len(s)), old, new)
         ELSE <<Head(s)>> \o Replace(Tail(s), old, new)

\* f"<<{key}>>"
Placeholder(key) == <<"<", "<">> \o key \o <<">", ">">>

(***************************************************************************)
(* json.loads on the JSON texts the inputs use: a quoted string without    *)
(* escapes, an unsigned integer, null, and an array of those, all without  *)
(* white space.  Anything else raises JSONDecodeError (ok = FALSE).        *)
(***************************************************************************)
IsDigitChar(c) == c \in {"0", "1", "2", "3", "4", "5", "6", "7", "8", "9"}

DigitVal(c) == CHOOSE d \in 0..9 : Digit(d) = c

RECURSIVE StrToNat(_)
StrToNat(s) == IF s = <<>> THEN 0 ELSE 10 * StrToNat(SubSeq(s, 1, Len(s) - 1)) + DigitVal(s[Len(s)])

IsJsonString(s) ==
    /\ Len(s) >= 2
    /\ s[1] = "\""
    /\ s[Len(s)] = "\""
    /\ \A i \in 2..(Len(s) - 1) : s[i] \notin {"\"", "\\"}

IsJsonNumber(s) ==
    /\ s # <<>>
    /\ \A i \in 1..Len(s) : IsDigitChar(s[i])
    /\ (Len(s) > 1 => s[1] # "0")

IsJsonScalar(s) == IsJsonString(s) \/ IsJsonNumber(s) \/ s = <<"n", "u", "l", "l">>

JsonScalar(s) ==
    IF IsJsonString(s) THEN Str(SubSeq(s, 2, Len(s) - 1))
    ELSE IF IsJsonNumber(s) THEN Num(StrToNat(s))
    ELSE None

\* the pieces of s between the commas that stand outside quotes
RECURSIVE SplitItems(_, _, _)
SplitItems(s, cur, inq) ==
    IF s = <<>> THEN <<cur>>
    ELSE IF Head(s) = "," /\ ~inq THEN <<cur>> \o SplitItems(Tail(s), <<>>, FALSE)
    ELSE SplitItems(Tail(s), Append(cur, Head(s)), IF Head(s) = "\"" THEN ~inq ELSE inq)

JsonLoads(s) ==
    IF IsJsonScalar(s) THEN [ok |-> TRUE, val |-> JsonScalar(s)]
    ELSE IF Len(s) >= 2 /\ s[1] = "[" /\ s[Len(s)] = "]"
    THEN LET inner == SubSeq(s, 2, Len(s) - 1)
             items == SplitItems(inner, <<>>, FALSE)
         IN  IF inner = <<>> THEN [ok |-> TRUE, val |-> List(<<>>)]
             ELSE IF \A i \in 1..Len(items) : IsJsonScalar(items[i])
             THEN [ok |-> TRUE, val |-> List([i \in 1..Len(items) |-> JsonScalar(items[i])])]
             ELSE [ok |-> FALSE, val |-> None]
    ELSE [ok |-> FALSE, val |-> None]

(***************************************************************************)
(* base64.b64decode(s) with validate=False: characters outside the         *)
(* alphabet are discarded; it raises binascii.Error when the data          *)
(* characters do not fill whole bytes with the padding present.            *)
(***************************************************************************)
B64Alphabet == {"A", "B", "Q", "R", "a", "b", "0", "1", "+", "/"}

RECURSIVE CountIn(_, _)
CountIn(s, set) == IF s = <<>> THEN 0 ELSE (IF Head(s) \in set THEN 1 ELSE 0) + CountIn(Tail(s), set)

B64DecodeOk(s) ==
    LET n == CountIn(s, B64Alphabet)
        p == CountIn(s, {"="})
    IN  \/ n % 4 = 0
        \/ n % 4 = 2 /\ p >= 2
        \/ n % 4 = 3 /\ p >= 1

(***************************************************************************)
(* Dict helpers.                                                           *)
(***************************************************************************)
\* `key in d`
DictHas(d, key) == \E i \in 1..Len(d.v) : d.v[i].k = key

\* d[key]
DictGet(d, key) == d.v[CHOOSE i \in 1..Len(d.v) : d.v[i].k = key].val

(***************************************************************************)
(* State.                                                                  *)
(***************************************************************************)
VARIABLES
    firebase_app,          \* TRUE iff self.firebase_app holds an app handle
    storage_bucket,        \* TRUE iff self.storage_bucket holds a bucket handle
    fcm_tokens,            \* self.fcm_tokens, the configured default tokens
    preset_messages,       \* self.preset_messages
    enforce_preset,        \* self.enforce_preset
    pc,                    \* position of the one do_command call in flight
    command,               \* its command mapping
    title,                 \* locals of _handle_send
    body,
    processed_image_url,
    blob_to_delete,        \* TRUE iff blob_to_delete holds the uploaded blob
    data,
    target_tokens,
    idx,                   \* position of the for loop in target_tokens
    failed_tokens,
    successful_count,
    result,                \* the mapping do_command returned, or None
    raised,                \* the exception do_command raised, or ""
    media_log,             \* what the media_base64 block logged, or ""
    calls                  \* calls made on the storage and messaging transports

config == <<firebase_app, storage_bucket, fcm_tokens, preset_messages, enforce_preset>>

locals == <<command, title, body, processed_image_url, blob_to_delete, data,
            target_tokens, idx, failed_tokens, successful_count, media_log>>

vars == <<firebase_app, storage_bucket, fcm_tokens, preset_messages, enforce_preset,
          pc, command, title, body, processed_image_url, blob_to_delete, data,
          target_tokens, idx, failed_tokens, successful_count, result, raised,
          media_log, calls>>

(***************************************************************************)
(* Inputs.                                                                 *)
(***************************************************************************)
tokA == Str(<<"a">>)
tokB == Str(<<"b">>)
tokC == Str(<<"c">>)

\* "Hi <<n>>", "<<n>>", "Yo", "u/<<n>>"
TitleHiN == <<"H", "i", " ", "<", "<", "n", ">", ">">>
TitleN == <<"<", "<", "n", ">", ">">>
BodyYo == <<"Y", "o">>
UrlN == <<"u", "/", "<", "<", "n", ">", ">">>
UrlCmd == <<"u", "/", "c">>
SignedUrl == <<"s", "i", "g", "n", "e", "d">>

PresetTable ==
    Dict(<<[k |-> <<"w">>, val |-> [title |-> Str(TitleHiN), body |-> Str(BodyYo), image_url |-> None]],
           [k |-> <<"i">>, val |-> [title |-> Str(TitleN), body |-> None, image_url |-> Str(UrlN)]]>>)

\* the attribute mappings reconfigure is called with
ConfigAttributes ==
    { [service_account_json |-> c[1], service_account_file |-> c[2],
       fcm_tokens |-> t, preset_messages |-> p, enforce_preset |-> e] :
        c \in { <<Dict(<<[k |-> <<"p">>, val |-> Str(<<"x">>)]>>), None>>,
                <<Str(<<"{">>), None>>,
                <<None, Str(<<"f">>)>>,
                <<None, None>> },
        t \in { None, List(<<tokA, tokC>>),
                Str(<<"[", "\"", "c", "\"", "]">>), Str(<<"c">>) },
        p \in { None, PresetTable, Str(<<"{">>) },
        e \in { None, PyBool(TRUE) } }

\* native token lists of a command: every list over {a, b} up to the bound
CmdTokenLists == UNION { [1..n -> {tokA, tokB}] : n \in 0..MaxCmdTokens }

\* the fcm_tokens field of a command
CmdTokenFields ==
    {None} \cup { List(l) : l \in CmdTokenLists }
    \cup { Str(<<"b">>),                               \* b
           Str(<<"[", "\"", "b", "\"", "]">>),         \* ["b"]
           Str(<<"[", "]">>),                          \* []
           Str(<<"\"", "b", "\"">>) }                  \* "b"

MediaFields ==
    { <<None, None>>,
      <<Str(<<"Q", "Q", "=", "=">>), Str(<<"p", "n", "g">>)>>,
      <<Str(<<"Q", "Q">>), Str(<<"p", "n", "g">>)>>,
      <<Str(<<"Q", "Q", "=", "=">>), None>> }

DataFields == { None, Dict(<<[k |-> <<"k">>, val |-> Str(<<"v">>)]>>) }

TemplateVarFields ==
    { None,
      Dict(<<[k |-> <<"n">>, val |-> Str(<<"A", "d", "a">>)]>>),
      Dict(<<[k |-> <<"n">>, val |-> Str(<<>>)]>>),
      Dict(<<[k |-> <<"n">>, val |-> Num(7)]>>) }

NoFields ==
    [command |-> None, preset |-> None, template_vars |-> None, title |-> None,
     body |-> None, image_url |-> None, media_base64 |-> None, media_mime_type |-> None,
     data |-> None, fcm_tokens |-> None]

\* send commands with direct content
DirectCommands ==
    { [NoFields EXCEPT !.command = Str(<<"s", "e", "n", "d">>),
                       !.title = tb[1], !.body = tb[2], !.image_url = u,
                       !.media_base64 = m[1], !.media_mime_type = m[2],
                       !.data = d, !.fcm_tokens = f] :
        tb \in { <<None, None>>, <<Str(<<"T">>), None>>, <<Str(<<>>), Str(BodyYo)>> },
        u \in { None, Str(UrlCmd) },
        m \in MediaFields, d \in DataFields, f \in CmdTokenFields }

\* the fcm_tokens field of the commands that name a preset
PresetCmdTokenFields == { None, List(<<tokB>>), Str(<<"[", "]">>) }

\* send commands naming a preset
PresetCommands ==
    { [NoFields EXCEPT !.command = Str(<<"s", "e", "n", "d">>),
                       !.preset = Str(n), !.template_vars = tv,
                       !.media_base64 = m[1], !.media_mime_type = m[2],
                       !.data = d, !.fcm_tokens = f] :
        n \in { <<"w">>, <<"i">>, <<"x">> }, tv \in TemplateVarFields,
        m \in MediaFields, d \in DataFields, f \in PresetCmdTokenFields }

\* commands the router rejects: the empty mapping, no "command" key, other values
RejectedCommands ==
    { NoFields,
      [NoFields EXCEPT !.title = Str(<<"T">>), !.fcm_tokens = List(<<tokA>>)],
      [NoFields EXCEPT !.command = Str(<<"s", "t", "a", "t", "u", "s">>),
                       !.title = Str(<<"T">>), !.fcm_tokens = List(<<tokA>>)],
      [NoFields EXCEPT !.command = Str(<<"S", "e", "n", "d">>), !.title = Str(<<"T">>)] }

Commands == DirectCommands \cup PresetCommands \cup RejectedCommands

(***************************************************************************)
(* reconfigure                                                             *)
(***************************************************************************)
\* lines 102-118: the fcm_tokens attribute as the list self.fcm_tokens
ConfigTokens(value) ==
    IF ~Truthy(value) THEN <<>>
    ELSE IF value.t = "str"
    THEN LET j == JsonLoads(value.v)
         IN  IF j.ok THEN (IF j.val.t = "list" THEN j.val.v ELSE <<j.val>>)
             ELSE <<value>>
    ELSE IF value.t = "list" THEN value.v ELSE <<value>>

\* The state reconfigure leaves, and whether it raised.  cred_ok: whether
\* credentials.Certificate and initialize_app accept the credentials;
\* bucket_ok: whether storage.bucket returns a bucket.
ReconfigureResult(old, attributes, cred_ok, bucket_ok) ==
    LET sa_json == attributes.service_account_json
        sa_file == attributes.service_account_file
        cleaned == IF old.firebase_app
                   THEN [old EXCEPT !.firebase_app = FALSE, !.storage_bucket = FALSE]
                   ELSE old
        cred_raises ==
            IF Truthy(sa_json)
            THEN (sa_json.t = "str" /\ ~JsonLoads(sa_json.v).ok) \/ ~cred_ok
            ELSE IF Truthy(sa_file) THEN ~cred_ok
            ELSE TRUE
        pm == attributes.preset_messages
        with_tokens == [cleaned EXCEPT !.firebase_app = TRUE,
                                       !.storage_bucket = bucket_ok,
                                       !.fcm_tokens = ConfigTokens(attributes.fcm_tokens)]
        presets_raise == Truthy(pm) /\ pm.t = "str" /\ ~JsonLoads(pm.v).ok
        presets == IF Truthy(pm)
                   THEN (IF pm.t = "str" THEN JsonLoads(pm.v).val ELSE pm)
                   ELSE Dict(<<>>)
    IN  IF cred_raises THEN [state |-> cleaned, raised |-> TRUE]
        ELSE IF presets_raise THEN [state |-> with_tokens, raised |-> TRUE]
        ELSE [state |-> [with_tokens EXCEPT
                            !.preset_messages = presets,
                            !.enforce_preset = Truthy(Get(attributes, "enforce_preset", PyBool(FALSE)))],
              raised |-> FALSE]

\* the class attributes, lines 31-35
ClassAttributes ==
    [firebase_app |-> FALSE, storage_bucket |-> FALSE, fcm_tokens |-> <<>>,
     preset_messages |-> Dict(<<>>), enforce_preset |-> FALSE]

ConfigIs(c) ==
    /\ firebase_app = c.firebase_app
    /\ storage_bucket = c.storage_bucket
    /\ fcm_tokens = c.fcm_tokens
    /\ preset_messages = c.preset_messages
    /\ enforce_preset = c.enforce_preset

CurrentConfig ==
    [firebase_app |-> firebase_app, storage_bucket |-> storage_bucket,
     fcm_tokens |-> fcm_tokens, preset_messages |-> preset_messages,
     enforce_preset |-> enforce_preset]

\* no do_command call in flight: its locals hold nothing
Idle ==
    /\ pc = "idle"
    /\ command = NoFields
    /\ title = None
    /\ body = None
    /\ processed_image_url = None
    /\ blob_to_delete = FALSE
    /\ data = None
    /\ target_tokens = <<>>
    /\ idx = 1
    /\ failed_tokens = <<>>
    /\ successful_count = 0
    /\ result = None
    /\ raised = ""
    /\ media_log = ""
    /\ calls = <<>>

\* new(): the service exists once reconfigure returned on the class attributes
Init ==
    /\ Idle
    /\ \E attributes \in ConfigAttributes, bucket_ok \in BOOLEAN :
          LET r == ReconfigureResult(ClassAttributes, attributes, TRUE, bucket_ok)
          IN  ~r.raised /\ ConfigIs(r.state)

Reconfigure ==
    /\ pc = "idle"
    /\ \E attributes \in ConfigAttributes, cred_ok \in BOOLEAN, bucket_ok \in BOOLEAN :
          LET r == ReconfigureResult(CurrentConfig, attributes, cred_ok, bucket_ok)
          IN  /\ firebase_app' = r.state.firebase_app
              /\ storage_bucket' = r.state.storage_bucket
              /\ fcm_tokens' = r.state.fcm_tokens
              /\ preset_messages' = r.state.preset_messages
              /\ enforce_preset' = r.state.enforce_preset
    /\ UNCHANGED <<pc, result, raised, calls>>
    /\ UNCHANGED locals

(***************************************************************************)
(* do_command                                                              *)
(***************************************************************************)
CmdSend == Str(<<"s", "e", "n", "d">>)

Raise(exc) ==
    /\ pc' = "done"
    /\ raised' = exc

\* the router with its final else lost: every other command value is sent
Route_NoElse(c) ==
    IF c = NoFields \/ c.command = None THEN "MissingCommand" ELSE ""

\* lines 151-159: the exception the router raises for a command, "" for none
Route(c) ==
    IF c = NoFields \/ c.command = None THEN "MissingCommand"
    ELSE IF c.command = CmdSend THEN ""
    ELSE "UnknownCommand"

\* lines 143-159
DoCommand ==
    /\ pc = "idle"
    /\ \E c \in Commands :
          /\ command' = c
          /\ IF Route(c) = ""
             THEN pc' = "handle_send" /\ raised' = raised
             ELSE Raise(Route(c))
    /\ UNCHANGED config
    /\ UNCHANGED <<title, body, processed_image_url, blob_to_delete, data, target_tokens,
                   idx, failed_tokens, successful_count, result, media_log, calls>>

(***************************************************************************)
(* _handle_send                                                            *)
(***************************************************************************)
\* lines 188-194 on one string: the replacements of every template variable,
\* in the order of template_vars.items()
RECURSIVE ApplyTemplate(_, _)
ApplyTemplate(s, items) ==
    IF items = <<>> THEN s
    ELSE ApplyTemplate(Replace(s, Placeholder(Head(items).k), PyStr(Head(items).val)),
                       Tail(items))

\* the enforce_preset test with `and` for `or`
PresetRequiredButMissing_And(cmd) ==
    enforce_preset /\ (~Truthy(cmd.preset) /\ ~Truthy(preset_messages))

\* lines 164-165: the enforce_preset test
PresetRequiredButMissing(cmd) ==
    enforce_preset /\ (~Truthy(cmd.preset) \/ ~Truthy(preset_messages))

\* lines 196-197 and 203-204: the image URL the preset or the command gives
ResolvedImageUrl(cmd) ==
    IF Truthy(cmd.preset)
    THEN LET preset == DictGet(preset_messages, cmd.preset.v)
             template_vars == Get(cmd, "template_vars", Dict(<<>>))
             url == IF Truthy(preset.image_url)
                    THEN Str(ApplyTemplate(preset.image_url.v, template_vars.v))
                    ELSE preset.image_url
         IN  IF Truthy(url) THEN url ELSE None
    ELSE IF Truthy(cmd.image_url) THEN cmd.image_url ELSE None

\* lines 164-204
ResolveContent ==
    /\ pc = "handle_send"
    /\ IF PresetRequiredButMissing(command)
       THEN Raise("PresetEnforced") /\ UNCHANGED <<title, body, processed_image_url>>
       ELSE IF Truthy(command.preset)
       THEN IF ~DictHas(preset_messages, command.preset.v)
            THEN Raise("PresetNotFound") /\ UNCHANGED <<title, body, processed_image_url>>
            ELSE LET preset == DictGet(preset_messages, command.preset.v)
                     template_vars == Get(command, "template_vars", Dict(<<>>))
                 IN  /\ title' = Str(ApplyTemplate(Get(preset, "title", Str(<<>>)).v, template_vars.v))
                     /\ body' = Str(ApplyTemplate(Get(preset, "body", Str(<<>>)).v, template_vars.v))
                     /\ processed_image_url' = ResolvedImageUrl(command)
                     /\ pc' = "media"
                     /\ raised' = raised
       ELSE /\ title' = Get(command, "title", Str(<<>>))
            /\ body' = Get(command, "body", Str(<<>>))
            /\ processed_image_url' = ResolvedImageUrl(command)
            /\ pc' = "media"
            /\ raised' = raised
    /\ UNCHANGED config
    /\ UNCHANGED <<command, blob_to_delete, data, target_tokens, idx, failed_tokens,
                   successful_count, result, media_log, calls>>

StorageCall(op, ok) == [svc |-> "storage", op |-> op, ok |-> ok, pos |-> 0, token |-> None, msg |-> None]

\* lines 208-209: the block runs
MediaGiven(cmd) == Truthy(cmd.media_base64) /\ Truthy(cmd.media_mime_type)

\* the except clause resetting the image URL instead of keeping it
MediaResult_DropUrl(cmd, url, upload_ok, sign_ok) ==
    IF ~MediaGiven(cmd)
    THEN [log |-> "", calls |-> <<>>, url |-> url, blob |-> FALSE]
    ELSE IF ~storage_bucket
    THEN [log |-> "warning_no_bucket", calls |-> <<>>, url |-> url, blob |-> FALSE]
    ELSE IF ~B64DecodeOk(cmd.media_base64.v)
    THEN [log |-> "error_decode", calls |-> <<>>, url |-> None, blob |-> FALSE]
    ELSE IF ~upload_ok
    THEN [log |-> "error_upload", calls |-> <<StorageCall("upload", FALSE)>>,
          url |-> None, blob |-> FALSE]
    ELSE IF ~sign_ok
    THEN [log |-> "error_sign",
          calls |-> <<StorageCall("upload", TRUE), StorageCall("sign", FALSE)>>,
          url |-> None, blob |-> FALSE]
    ELSE [log |-> "uploaded",
          calls |-> <<StorageCall("upload", TRUE), StorageCall("sign", TRUE)>>,
          url |-> Str(SignedUrl), blob |-> TRUE]

\* lines 208-232: what the media_base64 block logs, the transport calls it
\* makes, and the processed_image_url and blob_to_delete it leaves.
\* upload_ok, sign_ok: whether blob.upload_from_file and
\* blob.generate_signed_url return or raise.
MediaResult(cmd, url, upload_ok, sign_ok) ==
    IF ~MediaGiven(cmd)
    THEN [log |-> "", calls |-> <<>>, url |-> url, blob |-> FALSE]
    ELSE IF ~storage_bucket
    THEN [log |-> "warning_no_bucket", calls |-> <<>>, url |-> url, blob |-> FALSE]
    ELSE IF ~B64DecodeOk(cmd.media_base64.v)
    THEN [log |-> "error_decode", calls |-> <<>>, url |-> url, blob |-> FALSE]
    ELSE IF ~upload_ok
    THEN [log |-> "error_upload", calls |-> <<StorageCall("upload", FALSE)>>,
          url |-> url, blob |-> FALSE]
    ELSE IF ~sign_ok
    THEN [log |-> "error_sign",
          calls |-> <<StorageCall("upload", TRUE), StorageCall("sign", FALSE)>>,
          url |-> url, blob |-> FALSE]
    ELSE [log |-> "uploaded",
          calls |-> <<StorageCall("upload", TRUE), StorageCall("sign", TRUE)>>,
          url |-> Str(SignedUrl), blob |-> TRUE]

\* lines 206-232
ProcessMedia ==
    /\ pc = "media"
    /\ \E upload_ok \in BOOLEAN, sign_ok \in BOOLEAN :
          LET r == MediaResult(command, processed_image_url, upload_ok, sign_ok)
          IN  /\ media_log' = r.log
              /\ calls' = calls \o r.calls
              /\ processed_image_url' = r.url
              /\ blob_to_delete' = r.blob
    /\ pc' = "validate"
    /\ UNCHANGED config
    /\ UNCHANGED <<command, title, body, data, target_tokens, idx, failed_tokens,
                   successful_count, result, raised>>

\* line 238: the test that rejects the command for missing content
ContentMissing(t, b, d, url) == ~Truthy(t) /\ ~Truthy(b)

\* lines 234-239
ValidateContent ==
    /\ pc = "validate"
    /\ data' = Get(command, "data", Dict(<<>>))
    /\ IF ContentMissing(title, body, data', processed_image_url)
       THEN Raise("NoContent")
       ELSE pc' = "tokens" /\ raised' = raised
    /\ UNCHANGED config
    /\ UNCHANGED <<command, title, body, processed_image_url, blob_to_delete, target_tokens,
                   idx, failed_tokens, successful_count, result, media_log, calls>>

\* lines 242-261: the tokens the command's fcm_tokens field gives
CommandTokens(cmd) ==
    LET cmd_tokens == Get(cmd, "fcm_tokens", List(<<>>))
    IN  IF ~Truthy(cmd_tokens) THEN <<>>
        ELSE IF cmd_tokens.t = "str"
        THEN LET j == JsonLoads(cmd_tokens.v)
             IN  IF j.ok THEN (IF j.val.t = "list" THEN j.val.v ELSE <<j.val>>)
                 ELSE <<cmd_tokens>>
        ELSE IF cmd_tokens.t = "list" THEN cmd_tokens.v
        ELSE <<cmd_tokens>>

\* the defaults merged in after the command's tokens
ResolvedTokens_Merge(cmd, defaults) == CommandTokens(cmd) \o defaults

\* lines 263-265
ResolvedTokens(cmd, defaults) ==
    IF CommandTokens(cmd) = <<>> THEN defaults ELSE CommandTokens(cmd)

\* lines 241-273
ResolveTokens ==
    /\ pc = "tokens"
    /\ target_tokens' = ResolvedTokens(command, fcm_tokens)
    /\ IF target_tokens' = <<>>
       THEN Raise("NoTokens")
       ELSE pc' = "dispatch" /\ raised' = raised
    /\ failed_tokens' = <<>>
    /\ successful_count' = 0
    /\ idx' = 1
    /\ UNCHANGED config
    /\ UNCHANGED <<command, title, body, processed_image_url, blob_to_delete, data,
                   result, media_log, calls>>

\* lines 278-307: the arguments of messaging.Message for one token
MessageArgs(token) ==
    LET notification ==
            IF Truthy(title) \/ Truthy(body)
            THEN [present |-> TRUE, title |-> title, body |-> body,
                  image |-> processed_image_url]
            ELSE IF Truthy(processed_image_url)
            THEN [present |-> TRUE, title |-> None, body |-> None,
                  image |-> processed_image_url]
            ELSE [present |-> FALSE, title |-> None, body |-> None, image |-> None]
    IN  [data |-> data, token |-> token, notification |-> notification,
         platform_image |-> IF Truthy(processed_image_url) THEN processed_image_url ELSE None]

\* lines 310-318: the token is skipped, counted as failed, nothing is sent
SkipToken(args) ==
    /\ ~args.notification.present
    /\ ~Truthy(args.data)
    /\ ~Truthy(processed_image_url)

\* the loop left at the first failed delivery
AfterFailure_Break(i) == Len(target_tokens) + 1

\* lines 325-327: what follows a failed delivery, the position of the next
\* token the loop takes up
AfterFailure(i) == i + 1

\* lines 275-327, one iteration.  send_ok: whether messaging.Message and
\* messaging.send return or raise.
SendToken ==
    /\ pc = "dispatch"
    /\ idx <= Len(target_tokens)
    /\ LET token == target_tokens[idx]
           args == MessageArgs(token)
       IN  IF SkipToken(args)
           THEN /\ failed_tokens' = Append(failed_tokens, token)
                /\ idx' = idx + 1
                /\ UNCHANGED <<successful_count, calls>>
           ELSE \E send_ok \in BOOLEAN :
                  /\ calls' = Append(calls, [svc |-> "messaging", op |-> "send", ok |-> send_ok,
                                             pos |-> idx, token |-> token, msg |-> args])
                  /\ IF send_ok
                     THEN /\ successful_count' = successful_count + 1
                          /\ idx' = idx + 1
                          /\ UNCHANGED failed_tokens
                     ELSE /\ failed_tokens' = Append(failed_tokens, token)
                          /\ idx' = AfterFailure(idx)
                          /\ UNCHANGED successful_count
    /\ UNCHANGED config
    /\ UNCHANGED <<pc, command, title, body, processed_image_url, blob_to_delete, data,
                   target_tokens, result, raised, media_log>>

\* failed tokens counted as a set
SendResult_DedupFailed(sent, failed) ==
    [success |-> sent > 0, sent_count |-> sent,
     failed_count |-> Cardinality({failed[i] : i \in 1..Len(failed)}),
     sent_to_tokens |-> sent]

\* success reported only when no token failed
SendResult_AllOrNothing(sent, failed) ==
    [success |-> Len(failed) = 0, sent_count |-> sent, failed_count |-> Len(failed),
     sent_to_tokens |-> sent]

\* lines 329-334
SendResult(sent, failed) ==
    [success |-> sent > 0, sent_count |-> sent, failed_count |-> Len(failed),
     sent_to_tokens |-> sent]

BuildResult ==
    /\ pc = "dispatch"
    /\ idx > Len(target_tokens)
    /\ result' = SendResult(successful_count, failed_tokens)
    /\ pc' = "cleanup"
    /\ UNCHANGED config
    /\ UNCHANGED <<command, title, body, processed_image_url, blob_to_delete, data,
                   target_tokens, idx, failed_tokens, successful_count, raised,
                   media_log, calls>>

\* lines 336-344.  delete_ok: whether blob.delete returns or raises.
Cleanup ==
    /\ pc = "cleanup"
    /\ IF blob_to_delete
       THEN \E delete_ok \in BOOLEAN : calls' = Append(calls, StorageCall("delete", delete_ok))
       ELSE UNCHANGED calls
    /\ pc' = "done"
    /\ UNCHANGED config
    /\ UNCHANGED <<command, title, body, processed_image_url, blob_to_delete, data,
                   target_tokens, idx, failed_tokens, successful_count, result, raised,
                   media_log>>

\* the caller has the response or the exception; the next call may start
Finish ==
    /\ pc = "done"
    /\ pc' = "idle"
    /\ command' = NoFields
    /\ title' = None
    /\ body' = None
    /\ processed_image_url' = None
    /\ blob_to_delete' = FALSE
    /\ data' = None
    /\ target_tokens' = <<>>
    /\ idx' = 1
    /\ failed_tokens' = <<>>
    /\ successful_count' = 0
    /\ result' = None
    /\ raised' = ""
    /\ media_log' = ""
    /\ calls' = <<>>
    /\ UNCHANGED config

Next ==
    \/ Reconfigure
    \/ DoCommand
    \/ ResolveContent
    \/ ProcessMedia
    \/ ValidateContent
    \/ ResolveTokens
    \/ SendToken
    \/ BuildResult
    \/ Cleanup
    \/ Finish

Spec == Init /\ [][Next]_vars

(***************************************************************************)
(* Properties.                                                             *)
(***************************************************************************)
IsSend(c) == c.svc = "messaging"

\* the delivery attempts of the call in flight, in the order made
Sends == SelectSeq(calls, IsSend)

\* the positions in calls of the calls of one storage operation
StorageAt(op) == { i \in 1..Len(calls) : calls[i].svc = "storage" /\ calls[i].op = op }

SendAt == { i \in 1..Len(calls) : calls[i].svc = "messaging" }

\* _handle_send returned its result to the caller
Returned == pc = "done" /\ raised = ""

\* the send command was rejected
RejectedSend == pc = "done" /\ raised \in {"PresetEnforced", "PresetNotFound", "NoContent", "NoTokens"}

\* C1: the result of a send over a non-empty resolved token list has
\* sent_count + failed_count equal to the number of resolved tokens,
\* duplicates counted per occurrence, whatever each delivery did.
C1_CountsCoverTokens ==
    (pc \in {"cleanup", "done"} /\ raised = "")
        => /\ target_tokens # <<>>
           /\ result.sent_count + result.failed_count = Len(target_tokens)

C1_Witness ==
    /\ Returned
    /\ Len(target_tokens) = 2
    /\ target_tokens[1] = target_tokens[2]
    /\ Len(Sends) = 2
    /\ ~Sends[1].ok /\ ~Sends[2].ok
    /\ result.failed_count = 2

\* C2: a call that uploaded a blob attempts its deletion exactly once before
\* it finishes, after the last delivery attempt, however the call ends.
C2_UploadedBlobDeletedOnce ==
    (pc = "done" /\ \E i \in StorageAt("upload") : calls[i].ok)
        => /\ Cardinality(StorageAt("delete")) = 1
           /\ \A d \in StorageAt("delete") : \A i \in SendAt : i < d

\* C3: a send command is rejected for missing content only when title and
\* body are empty and there is neither a data payload nor an image URL.
C3_RejectedOnlyWithoutDataAndImage ==
    raised = "NoContent" => (~Truthy(data) /\ ~Truthy(processed_image_url))

\* the tokens each fcm_tokens field of CmdTokenFields denotes
C4_Parsed(field) ==
    IF ~Truthy(field) THEN <<>>
    ELSE IF field.t = "list" THEN field.v
    ELSE IF field = Str(<<"[", "]">>) THEN <<>>
    ELSE <<tokB>>

\* the token stage was reached by the call in flight
C4_TokensResolved == pc \in {"dispatch", "cleanup"} \/ (pc = "done" /\ raised \in {"", "NoTokens"})

C4_SentExactly(expected) ==
    /\ raised = "NoTokens" <=> expected = <<>>
    /\ raised = "" =>
          /\ target_tokens = expected
          /\ \A i \in 1..Len(Sends) : Sends[i].token = expected[i]
          /\ pc \in {"cleanup", "done"} => Len(Sends) = Len(expected)

\* C4, as stated: a present, non-empty fcm_tokens field decides the tokens
\* alone; a field that parses to an empty list gets the command rejected.
C4_CommandFieldAlone ==
    C4_TokensResolved =>
        C4_SentExactly(IF Truthy(command.fcm_tokens) THEN C4_Parsed(command.fcm_tokens)
                       ELSE fcm_tokens)

\* C4, amended: the tokens parsed from the command's field, when there are
\* any, are exactly the tokens attempted and the defaults are not used; the
\* defaults are used when the field is absent, empty or parses to an empty
\* list, and the command is rejected when the defaults are empty as well.
C4_CommandTokensReplaceDefaults ==
    C4_TokensResolved =>
        C4_SentExactly(IF C4_Parsed(command.fcm_tokens) # <<>> THEN C4_Parsed(command.fcm_tokens)
                       ELSE fcm_tokens)

C4_Witness ==
    /\ Returned
    /\ command.fcm_tokens = List(<<tokA, tokB>>)
    /\ fcm_tokens = <<tokA, tokC>>
    /\ Len(Sends) = 2
    /\ Sends[1].token = tokA /\ Sends[2].token = tokB

\* C5: the loop attempts the tokens in list order, each position once, and a
\* failed delivery does not keep the following tokens from their attempt.
C5_EveryTokenAttemptedOnce ==
    /\ \A i \in 1..Len(Sends) : Sends[i].pos = i /\ Sends[i].token = target_tokens[i]
    /\ pc = "dispatch" => Len(Sends) = idx - 1
    /\ (pc \in {"cleanup", "done"} /\ raised = "") => Len(Sends) = Len(target_tokens)

C5_Witness ==
    /\ Returned
    /\ Len(target_tokens) = 2
    /\ Len(Sends) = 2
    /\ ~Sends[1].ok /\ Sends[2].ok

\* C6: with enforce_preset set, a send command naming no preset, or arriving
\* with an empty preset table, fails before tokens are resolved and with no
\* call made on the storage or the delivery transport.
C6_EnforcedPresetFailsFirst ==
    (/\ pc \notin {"idle", "handle_send"}
     /\ command.command = CmdSend
     /\ enforce_preset
     /\ (command.preset = None \/ preset_messages.v = <<>>))
        => /\ pc = "done"
           /\ raised = "PresetEnforced"
           /\ calls = <<>>
           /\ target_tokens = <<>>

C6_Witness ==
    /\ pc = "done"
    /\ raised = "PresetEnforced"
    /\ command.preset # None
    /\ MediaGiven(command)
    /\ storage_bucket
    /\ fcm_tokens # <<>>

\* C7: the success flag of a returned result is true exactly when some
\* delivery succeeded, and sent_to_tokens equals sent_count, the number of
\* deliveries that succeeded.
C7_SuccessIffSomeDelivered ==
    Returned =>
        /\ result.success <=> (\E i \in 1..Len(Sends) : Sends[i].ok)
        /\ result.success <=> result.sent_count > 0
        /\ result.sent_count = Cardinality({ i \in 1..Len(Sends) : Sends[i].ok })
        /\ result.sent_to_tokens = result.sent_count

C7_Witness ==
    /\ Returned
    /\ result.success
    /\ result.failed_count = 1
    /\ result.sent_count = 1

\* the step that takes a command in: what the router leaves
C8_RouterStep ==
    (pc = "idle" /\ pc' # "idle") =>
        /\ UNCHANGED config
        /\ calls' = <<>>
        /\ result' = None
        /\ IF command' = NoFields \/ command'.command = None
           THEN pc' = "done" /\ raised' = "MissingCommand"
           ELSE IF command'.command # CmdSend
           THEN pc' = "done" /\ raised' = "UnknownCommand"
           ELSE pc' = "handle_send" /\ raised' = ""

\* what holds of the call in flight after the router
C8_OnlySendInPipeline ==
    /\ pc \notin {"idle", "done"} => command.command = CmdSend
    /\ raised \in {"MissingCommand", "UnknownCommand"} => calls = <<>> /\ result = None

\* C8: the router rejects the empty mapping and a mapping without "command",
\* rejects every "command" other than "send", in both cases changing no
\* configuration and making no transport call; only "send" enters the send
\* pipeline.
C8_RouterRejects == [][C8_RouterStep]_vars /\ []C8_OnlySendInPipeline

C8_Witness ==
    /\ pc = "done"
    /\ raised = "UnknownCommand"
    /\ command.fcm_tokens # None
    /\ fcm_tokens # <<>>
    /\ calls = <<>>

\* C9: a rejected send command has made no call on the storage or the
\* delivery transport.
C9_RejectedSendDidNothing == RejectedSend => calls = <<>>

\* C10: when the media_base64 block fails (decode, upload or signed URL), a
\* command with a title or a body and a non-empty resolved token list still
\* returns a result after an attempt for every token, and every message
\* carries the image URL resolved from the preset or the command, or none.
C10_MediaFailureIsNotFatal ==
    (/\ pc = "done"
     /\ media_log \in {"error_decode", "error_upload", "error_sign"}
     /\ (Truthy(title) \/ Truthy(body))
     /\ ResolvedTokens(command, fcm_tokens) # <<>>)
        => /\ raised = ""
           /\ result # None
           /\ Len(Sends) = Len(ResolvedTokens(command, fcm_tokens))
           /\ \A i \in 1..Len(Sends) :
                 /\ Sends[i].msg.notification.image = ResolvedImageUrl(command)
                 /\ Sends[i].msg.platform_image = ResolvedImageUrl(command)

C10_Witness ==
    /\ Returned
    /\ media_log = "error_sign"
    /\ ResolvedImageUrl(command) # None
    /\ Len(Sends) = 2
    /\ Sends[2].msg.notification.image = ResolvedImageUrl(command)

====
